---- MODULE Spec2Model ----
(***************************************************************************)
(* Model of scripts/gulpfiles/build_tasks.js: the license normaliser, the  *)
(* core/ path flattening transform and its inverse, the chunk-graph        *)
(* resolver (getChunkOptions), the chunk wrapper generator and the         *)
(* buildCompiled task that drives them.                                    *)
(*                                                                         *)
(* Strings are sequences of one-character strings (or of short tokens     *)
(* where the characters inside a token never matter), so that split,      *)
(* join and replace are computed as JavaScript computes them.             *)
(***************************************************************************)
EXTENDS Integers, Sequences, FiniteSets, TLC

VARIABLES
    fileText,      \* license stage: the file's text, as its sequence of lines
    licPc,         \* license stage: "src" before stripApacheLicense, "stripped" after
    origText,      \* license stage: the text as read by gulp.src
    pathObject,    \* path stage: gulp.rename's {dirname, basename, extname}
    origPath,      \* path stage: the path object as produced by gulp.src
    sourcePath,    \* path stage: the source-map "sources" entry after mapSources
    pathPc,        \* path stage: "src", "renamed", "mapped"
    chunkState,    \* the computed fields of the shared chunks registry
    cacheFile,     \* contents of CHUNK_CACHE_FILE on disk
    cacheOrigin,   \* what the run that wrote cacheFile went on to return
    nodeSupported, \* process.version is v14 or later in the current process
    runs,          \* number of buildCompiled invocations in the current process
    buildPc,       \* buildCompiled: "idle", "resolved", "compiled", "aborted";
                   \* followed statement by statement also "map", "wrap",
                   \* "pipeline"
    lastRaw,       \* rawOptions of the latest getChunkOptions invocation
    chunkOptions,  \* value returned by the latest getChunkOptions invocation
    chunkByNickname, \* getChunkOptions' local of that name
    chunkList,     \* the array rawOptions.chunk.map has built so far
    mapIndex,      \* number of descriptors the map callback has returned for
    wrapIndex,     \* number of chunks the wrapper loop has assigned .wrapper
    files,         \* per file of chunkOptions.js: the pipes it has passed
    outputs        \* per compiled chunk file: the pipes it has passed

licVars == <<fileText, licPc, origText>>
pathVars == <<pathObject, origPath, sourcePath, pathPc>>
graphVars == <<chunkState, cacheFile, cacheOrigin, nodeSupported, runs, buildPc,
               lastRaw, chunkOptions>>
stepVars == <<chunkByNickname, chunkList, mapIndex, wrapIndex, files, outputs>>
vars == <<fileText, licPc, origText, pathObject, origPath, sourcePath, pathPc,
          chunkState, cacheFile, cacheOrigin, nodeSupported, runs, buildPc,
          lastRaw, chunkOptions, chunkByNickname, chunkList, mapIndex,
          wrapIndex, files, outputs>>

----------------------------------------------------------------------------
(* Bounds *)

MaxBlocks == 3
MaxDepth == 3
NumChunks == 2
MaxRuns == 2

----------------------------------------------------------------------------
(* String helpers: String.prototype.split / Array.prototype.join /         *)
(* String.prototype.replace with a global literal pattern.                  *)

RECURSIVE SplitAcc(_, _, _, _)
SplitAcc(s, sep, cur, acc) ==
    IF s = <<>> THEN Append(acc, cur)
    ELSE IF Head(s) = sep THEN SplitAcc(Tail(s), sep, <<>>, Append(acc, cur))
    ELSE SplitAcc(Tail(s), sep, Append(cur, Head(s)), acc)

Split(s, sep) == SplitAcc(s, sep, <<>>, <<>>)

RECURSIVE Join(_, _)
Join(parts, tok) ==
    IF parts = <<>> THEN <<>>
    ELSE IF Len(parts) = 1 THEN parts[1]
    ELSE parts[1] \o tok \o Join(Tail(parts), tok)

RECURSIVE ReplaceAll(_, _, _)
ReplaceAll(s, pat, rep) ==
    IF Len(s) < Len(pat) THEN s
    ELSE IF SubSeq(s, 1, Len(pat)) = pat
         THEN rep \o ReplaceAll(SubSeq(s, Len(pat) + 1, Len(s)), pat, rep)
         ELSE <<Head(s)>> \o ReplaceAll(Tail(s), pat, rep)

Contains(s, pat) ==
    \E i \in 1..(Len(s) - Len(pat) + 1) : SubSeq(s, i, i + Len(pat) - 1) = pat

SeqsUpTo(S, n) == UNION {[1..k -> S] : k \in 1..n}

----------------------------------------------------------------------------
(* LicenseNormalizer                                                        *)

LOpen == "/**"
LLicense == " * @license"
LGoogle == " * Copyright 2018 Google LLC"
LMit == " * Copyright 2011 Massachusetts Institute of Technology"
LOther == " * Copyright 2018 Acme Inc"
LRights == " * All rights reserved."
LSpdx == " * SPDX-License-Identifier: Apache-2.0"
LClose == " */"
LCode == "var x;"
LOpenAfterCode == "f();/**"
LCloseBeforeCode == " */g();"

\* The line ends with the comment opener the pattern starts with.
EndsWithOpen(l) == l \in {LOpen, LOpenAfterCode}
OpenPrefix(l) == IF l = LOpenAfterCode THEN "f();" ELSE ""
\* The line starts with the comment closer the pattern ends with.
StartsWithClose(l) == l \in {LClose, LCloseBeforeCode}
CloseSuffix(l) == IF l = LCloseBeforeCode THEN "g();" ELSE ""
\* Copyright \d+ (Google LLC|Massachusetts Institute of Technology)
IsCopyright(l) == l \in {LGoogle, LMit}

\* Number of lines the pattern matches from line i on (0: no match there).
licenseRegex(lines, i) ==
    IF /\ i + 4 <= Len(lines)
       /\ EndsWithOpen(lines[i])
       /\ lines[i + 1] = LLicense
       /\ IsCopyright(lines[i + 2])
    THEN IF /\ lines[i + 3] = LRights
            /\ i + 5 <= Len(lines)
            /\ lines[i + 4] = LSpdx
            /\ StartsWithClose(lines[i + 5])
         THEN 6
         ELSE IF /\ lines[i + 3] = LSpdx
                 /\ StartsWithClose(lines[i + 4])
              THEN 5
              ELSE 0
    ELSE 0

\* The replacement string '\n\n\n\n', as the line fragments it separates.
Replacement(prefix) == <<prefix, "", "", "">>

RECURSIVE stripApacheLicense(_)
stripApacheLicense(lines) ==
    IF lines = <<>> THEN <<>>
    ELSE LET n == licenseRegex(lines, 1) IN
         IF n = 0 THEN <<Head(lines)>> \o stripApacheLicense(Tail(lines))
         ELSE Replacement(OpenPrefix(lines[1]))
              \o stripApacheLicense(<<CloseSuffix(lines[n])>>
                                    \o SubSeq(lines, n + 1, Len(lines)))

lineCount(lines) == Len(lines)

BlockGoogle == <<LOpen, LLicense, LGoogle, LSpdx, LClose>>
BlockMitRights == <<LOpen, LLicense, LMit, LRights, LSpdx, LClose>>
BlockOther == <<LOpen, LLicense, LOther, LSpdx, LClose>>
BlockNoSpdx == <<LOpen, LLicense, LGoogle, LClose>>
BlockInline == <<LOpenAfterCode, LLicense, LMit, LSpdx, LCloseBeforeCode>>
BlockCode == <<LCode>>
BlockPool == {BlockGoogle, BlockMitRights, BlockOther, BlockNoSpdx, BlockInline,
              BlockCode}

RECURSIVE Concat(_)
Concat(ss) == IF ss = <<>> THEN <<>> ELSE Head(ss) \o Concat(Tail(ss))

Texts == {Concat(bs) : bs \in SeqsUpTo(BlockPool, MaxBlocks)}

HasRightsBlock(lines) == \E i \in 1..Len(lines) : licenseRegex(lines, i) = 6
NumMatches(lines) == Cardinality({i \in 1..Len(lines) : licenseRegex(lines, i) > 0})

----------------------------------------------------------------------------
(* PathFlattenTransform                                                     *)

Sep == "/"
SlashToken == <<"-", "s", "l", "a", "s", "h", "-">>
Core == <<"c", "o", "r", "e">>

flattenCorePaths_AnyCore(po) ==
    LET dirs == Split(po.dirname, Sep) IN
    IF \E k \in 1..Len(dirs) : dirs[k] = Core
    THEN [po EXCEPT !.dirname = dirs[1],
                    !.basename = Join(Tail(dirs) \o <<po.basename>>, SlashToken)]
    ELSE po
flattenCorePaths(po) ==
    LET dirs == Split(po.dirname, Sep) IN
    IF dirs[1] = Core
    THEN [po EXCEPT !.dirname = dirs[1],
                    !.basename = Join(Tail(dirs) \o <<po.basename>>, SlashToken)]
    ELSE po

unflattenCorePaths(pathString) == ReplaceAll(pathString, SlashToken, <<Sep>>)

\* The file path gulp.rename rebuilds from the path object.
PathString(po) == po.dirname \o <<Sep>> \o po.basename \o po.extname

SegCore2 == <<"c", "o", "r", "e", "2">>
SegBlocks == <<"b", "l">>
SegA == <<"a">>
SegEndsSlash == <<"x", "-", "s", "l", "a", "s", "h">>
SegHasToken == <<"a", "-", "s", "l", "a", "s", "h", "-", "b">>
SegX == <<"x">>
SegSlashA == <<"s", "l", "a", "s", "h", "-", "a">>
DirSegs == {Core, SegCore2, SegBlocks, SegA, SegX, SegEndsSlash, SegHasToken}
BaseNames == {SegA, SegSlashA, SegHasToken}
ExtJs == <<".", "j", "s">>

PathInputs ==
    {[dirname |-> Join(segs, <<Sep>>), basename |-> b, extname |-> ExtJs] :
        segs \in SeqsUpTo(DirSegs, MaxDepth), b \in BaseNames}

FirstSegment(po) == Split(po.dirname, Sep)[1]
Segments(po) == Split(po.dirname, Sep) \o <<po.basename>>
NoTokenInSegments(po) ==
    \A k \in 1..Len(Segments(po)) : ~Contains(Segments(po)[k], SlashToken)

----------------------------------------------------------------------------
(* Chunk registry and WrapperGenerator                                      *)

COMPILED_SUFFIX == "_compressed"
NAMESPACE_OBJECT == "$"

\* A property the registry entry does not define (undefined) is the empty
\* text: both are falsy, and Array.prototype.join prints both as ''.
AllChunks == <<
    [name |-> "blockly", entry |-> "core/requires.js", exports |-> "Blockly",
     importAs |-> "Blockly",
     factoryPreamble |-> <<"const ", NAMESPACE_OBJECT, "={};">>,
     factoryPostamble |->
         <<NAMESPACE_OBJECT, ".Blockly.internal_=", NAMESPACE_OBJECT, ";">>],
    [name |-> "blocks", entry |-> "blocks/all.js", exports |-> "Blockly.Blocks",
     importAs |-> "BlocklyBlocks", factoryPreamble |-> <<>>,
     factoryPostamble |-> <<>>],
    [name |-> "javascript", entry |-> "generators/javascript/all.js",
     exports |-> "Blockly.JavaScript", importAs |-> "",
     factoryPreamble |-> <<>>, factoryPostamble |-> <<>>],
    [name |-> "python", entry |-> "generators/python/all.js",
     exports |-> "Blockly.Python", importAs |-> "",
     factoryPreamble |-> <<>>, factoryPostamble |-> <<>>],
    [name |-> "php", entry |-> "generators/php/all.js",
     exports |-> "Blockly.PHP", importAs |-> "",
     factoryPreamble |-> <<>>, factoryPostamble |-> <<>>],
    [name |-> "lua", entry |-> "generators/lua/all.js",
     exports |-> "Blockly.Lua", importAs |-> "",
     factoryPreamble |-> <<>>, factoryPostamble |-> <<>>],
    [name |-> "dart", entry |-> "generators/dart/all.js",
     exports |-> "Blockly.Dart", importAs |-> "",
     factoryPreamble |-> <<>>, factoryPostamble |-> <<>>] >>

\* The registry, cut to its first NumChunks entries.
chunks == SubSeq(AllChunks, 1, NumChunks)

FACTORY_PREAMBLE == <<"const ", NAMESPACE_OBJECT, "=Blockly.internal_;">>
FACTORY_POSTAMBLE == <<>>

\* a || b on texts: the empty text is falsy.
OrElse(a, b) == IF a # <<>> THEN a ELSE b

\* ${chunk.factoryPreamble || FACTORY_PREAMBLE}
FactoryPreamble_Default(chunk) == FACTORY_PREAMBLE
FactoryPreamble(chunk) == OrElse(chunk.factoryPreamble, FACTORY_PREAMBLE)
\* ${chunk.factoryPostamble || FACTORY_POSTAMBLE}
FactoryPostamble(chunk) == OrElse(chunk.factoryPostamble, FACTORY_POSTAMBLE)

\* chunkWrapper(chunk) for the registry entry at index c whose .dependencies
\* holds references (registry indices) deps.  One sequence of text pieces
\* per line of the generated wrapper.
chunkWrapper(c, deps) ==
    LET chunk == chunks[c]
        fileNames == [k \in 1..Len(deps) |->
                         <<"\"./", chunks[deps[k]].name, COMPILED_SUFFIX, ".js\"">>]
        amdDeps == Join(fileNames, <<", ">>)
        cjsDeps == Join([k \in 1..Len(fileNames) |->
                             <<"require(">> \o fileNames[k] \o <<")">>],
                        <<", ">>)
        browserDeps == Join([k \in 1..Len(deps) |->
                                 <<"root.", chunks[deps[k]].exports>>],
                            <<", ">>)
        imports == Join([k \in 1..Len(deps) |-> <<chunks[deps[k]].importAs>>],
                        <<", ">>)
    IN << <<"// Do not edit this file; automatically generated.">>,
          <<"define([">> \o amdDeps \o <<"], factory);">>,
          <<"module.exports = factory(">> \o cjsDeps \o <<");">>,
          <<"root.", chunk.exports, " = factory(">> \o browserDeps \o <<");">>,
          <<"}(this, function(">> \o imports \o <<") {">>,
          FactoryPreamble(chunk),
          <<"%output%">>,
          FactoryPostamble(chunk),
          <<"return ", NAMESPACE_OBJECT, ".", chunk.exports, ";">> >>

----------------------------------------------------------------------------
(* ChunkGraphResolver                                                       *)

\* A registry entry's computed fields.  A reference to a chunk is its
\* registry index; 0 is undefined.
NoFields == [hasDeps |-> FALSE, dependencies |-> <<>>,
             hasWrapper |-> FALSE, wrapper |-> <<>>]
Pristine == [i \in 1..NumChunks |-> NoFields]

\* chunkByNickname: a set of <<nickname, chunk reference>> bindings.
Bind(byNick, nick, c) == {p \in byNick : p[1] # nick} \cup {<<nick, c>>}
Lookup_DefaultRoot(byNick, nick) ==
    IF \E p \in byNick : p[1] = nick
    THEN (CHOOSE p \in byNick : p[1] = nick)[2]
    ELSE 1
Lookup(byNick, nick) ==
    IF \E p \in byNick : p[1] = nick
    THEN (CHOOSE p \in byNick : p[1] = nick)[2]
    ELSE 0

\* chunk.dependencies.map(dependency => dependency.name).join(','):
\* reading .name of undefined throws.
DependencyNames(deps) ==
    IF \E k \in 1..Len(deps) : deps[k] = 0
    THEN [threw |-> TRUE, names |-> <<>>]
    ELSE [threw |-> FALSE,
          names |-> Join([k \in 1..Len(deps) |-> <<chunks[deps[k]].name>>], <<",">>)]

\* The callback of rawOptions.chunk.map, folded over the descriptors from
\* position index on; a throw ends the fold with the registry as it then is.
RECURSIVE MapDescriptors(_, _, _, _, _)
MapDescriptors(elements, index, st, byNick, out) ==
    IF index > Len(elements) THEN [threw |-> FALSE, st |-> st, chunkList |-> out]
    ELSE
    LET parts == Split(elements[index], ":")
        nickname == parts[1]
        numJsFiles == IF Len(parts) >= 2 THEN parts[2] ELSE <<"undefined">>
        dependencyNicks == IF Len(parts) >= 3 THEN parts[3] ELSE <<>>
        c == IF index <= NumChunks THEN index ELSE 0
        byNick2 == Bind(byNick, nickname, c)
        nicks == Split(dependencyNicks, ",")
        deps == [k \in 1..Len(nicks) |-> Lookup(byNick2, nicks[k])]
        dn == DependencyNames(deps)
    IN  IF c = 0 THEN [threw |-> TRUE, st |-> st, chunkList |-> out]
        ELSE IF dependencyNicks = <<>>
        THEN MapDescriptors(elements, index + 1,
                 [st EXCEPT ![c].hasDeps = TRUE, ![c].dependencies = <<>>],
                 byNick2,
                 Append(out, <<chunks[c].name, ":">> \o numJsFiles))
        ELSE LET st2 == [st EXCEPT ![c].hasDeps = TRUE, ![c].dependencies = deps]
             IN IF dn.threw THEN [threw |-> TRUE, st |-> st2, chunkList |-> out]
                ELSE MapDescriptors(elements, index + 1, st2, byNick2,
                         Append(out, <<chunks[c].name, ":">> \o numJsFiles
                                     \o <<":">> \o dn.names))

\* for (const chunk of chunks) chunk.wrapper = chunkWrapper(chunk);
\* chunkWrapper throws on a chunk whose .dependencies is undefined or holds
\* undefined.
RECURSIVE WrapAll(_, _)
WrapAll(st, c) ==
    IF c > NumChunks THEN [threw |-> FALSE, st |-> st]
    ELSE IF \/ ~st[c].hasDeps
            \/ \E k \in 1..Len(st[c].dependencies) : st[c].dependencies[k] = 0
    THEN [threw |-> TRUE, st |-> st]
    ELSE WrapAll([st EXCEPT ![c].hasWrapper = TRUE,
                            ![c].wrapper = chunkWrapper(c, st[c].dependencies)],
                 c + 1)

NoOptions == [returned |-> FALSE, chunk |-> <<>>, js |-> <<>>, chunk_wrapper |-> <<>>]

\* getChunkOptions from line 407 on: rawOptions is in hand, st is the registry.
ResolveChunks(st, rawOptions) ==
    LET m == MapDescriptors(rawOptions.chunk, 1, st, {}, <<>>)
        w == WrapAll(m.st, 1)
    IN  IF m.threw THEN [st |-> m.st, options |-> NoOptions]
        ELSE IF w.threw THEN [st |-> w.st, options |-> NoOptions]
        ELSE [st |-> w.st,
              options |->
                  [returned |-> TRUE,
                   chunk |-> m.chunkList,
                   js |-> rawOptions.js,
                   chunk_wrapper |->
                       [c \in 1..NumChunks |->
                           [w.st[c].wrapper EXCEPT ![1] = <<chunks[c].name, ":">> \o @]]]]

\* p.replace(process.cwd(), '.'): the first occurrence only.
RECURSIVE ReplaceFirst(_, _, _)
ReplaceFirst(s, pat, rep) ==
    IF Len(s) < Len(pat) THEN s
    ELSE IF SubSeq(s, 1, Len(pat)) = pat
         THEN rep \o SubSeq(s, Len(pat) + 1, Len(s))
         ELSE <<Head(s)>> \o ReplaceFirst(Tail(s), pat, rep)

Cwd == <<"/", "w", "d">>
Relativize(js) == [k \in 1..Len(js) |-> ReplaceFirst(js[k], Cwd, <<".">>)]

\* JSON.stringify / JSON.parse of an object with the properties chunk and js.
JSONStringify(o) == <<"{", "chunk", o.chunk, "js", o.js, "}">>
JSONParse(t) == [chunk |-> t[3], js |-> t[5]]

DepsOf(st) == [c \in 1..NumChunks |->
                  [hasDeps |-> st[c].hasDeps, dependencies |-> st[c].dependencies]]

----------------------------------------------------------------------------
(* Outputs of closure-calculate-chunks the model feeds to getChunkOptions   *)

NickNames == <<"a", "b", "c", "d", "e", "f", "g", "h", "i">>
Nick(i) == NickNames[i]
Descriptor(i, depNicks) ==
    <<Nick(i), ":", "5">>
    \o (IF depNicks = <<>> THEN <<>>
        ELSE <<":">> \o Join([k \in 1..Len(depNicks) |-> <<depNicks[k]>>], <<",">>))

\* What closure-calculate-chunks prints when every later entry point
\* requires the first: 'a:5', 'b:5:a', 'c:5:a', ...
WellFormed(len) ==
    [i \in 1..len |-> Descriptor(i, IF i = 1 THEN <<>> ELSE <<Nick(1)>>)]

\* Dependency lists for descriptor i: none, the first nickname, its own,
\* the previous one, the next one (a forward reference, or unknown when
\* there is no next descriptor), and two nicknames.
DepChoices(i) ==
    {<<>>, <<Nick(1)>>, <<Nick(i)>>, <<Nick(i + 1)>>, <<Nick(1), Nick(2)>>}
    \cup (IF i > 1 THEN {<<Nick(i - 1)>>} ELSE {})

\* The well-formed list of that length with the dependencies of at most
\* one descriptor (of a declared chunk) replaced.
Perturbed(len) ==
    UNION {{[WellFormed(len) EXCEPT ![i] = Descriptor(i, d)] : d \in DepChoices(i)} :
               i \in {j \in 1..len : j <= NumChunks}}

\* One descriptor fewer than chunks, as many, or one more.
DescriptorLists ==
    UNION {Perturbed(len) : len \in {NumChunks - 1, NumChunks, NumChunks + 1}}

JsCore == <<"c", "o", "r", "e", "/", "a", ".", "j", "s">>
\* One file list: a path already relative and an absolute one.
JsLists == { << <<".", "/">> \o JsCore, Cwd \o <<"/", "b", ".", "j", "s">> >> }

RawOutputs == {[chunk |-> d, js |-> j] : d \in DescriptorLists, j \in JsLists}

\* The checked-in cache file: every later chunk depends on the first.
CheckedIn ==
    [chunk |-> [i \in 1..NumChunks |->
                   Descriptor(i, IF i = 1 THEN <<>> ELSE <<Nick(1)>>)],
     js |-> << <<".", "/">> \o JsCore >>]

NoRaw == [chunk |-> <<>>, js |-> <<>>]
NoOrigin == [known |-> FALSE, options |-> NoOptions, deps |-> DepsOf(Pristine)]

----------------------------------------------------------------------------
(* Initial states                                                           *)

LicenseIdle == /\ fileText = <<>> /\ origText = <<>> /\ licPc = "off"
NoPath == [dirname |-> <<>>, basename |-> <<>>, extname |-> <<>>]
PathIdle == /\ pathObject = NoPath /\ origPath = NoPath
            /\ sourcePath = <<>> /\ pathPc = "off"
NoCache == [exists |-> FALSE, text |-> <<>>]
GraphIdle == /\ chunkState = Pristine /\ cacheFile = NoCache
             /\ cacheOrigin = NoOrigin /\ nodeSupported = TRUE /\ runs = 0
             /\ buildPc = "off" /\ lastRaw = NoRaw /\ chunkOptions = NoOptions
StepIdle == /\ chunkByNickname = {} /\ chunkList = <<>> /\ mapIndex = 0
            /\ wrapIndex = 0 /\ files = <<>> /\ outputs = <<>>

\* A file read by gulp.src, about to enter stripApacheLicense.
InitLicense == /\ fileText \in Texts /\ origText = fileText /\ licPc = "src"
               /\ PathIdle /\ GraphIdle /\ StepIdle

\* A file read by gulp.src, about to enter gulp.rename(flattenCorePaths).
InitPath == /\ pathObject \in PathInputs /\ origPath = pathObject
            /\ sourcePath = <<>> /\ pathPc = "src"
            /\ LicenseIdle /\ GraphIdle /\ StepIdle

\* A fresh process: the registry as declared, the cache file as checked in
\* or absent.
Init == /\ chunkState = Pristine
        /\ cacheFile \in {NoCache, [exists |-> TRUE, text |-> JSONStringify(CheckedIn)]}
        /\ cacheOrigin = NoOrigin
        /\ nodeSupported \in BOOLEAN
        /\ runs = 0
        /\ buildPc = "idle"
        /\ lastRaw = NoRaw
        /\ chunkOptions = NoOptions
        /\ LicenseIdle /\ PathIdle /\ StepIdle

----------------------------------------------------------------------------
(* Actions                                                                  *)

\* .pipe(stripApacheLicense())
StripApacheLicense ==
    /\ licPc = "src"
    /\ fileText' = stripApacheLicense(fileText)
    /\ licPc' = "stripped"
    /\ UNCHANGED <<origText, pathVars, graphVars, stepVars>>

\* .pipe(gulp.rename(flattenCorePaths))
Rename ==
    /\ pathPc = "src"
    /\ pathObject' = flattenCorePaths(pathObject)
    /\ pathPc' = "renamed"
    /\ UNCHANGED <<origPath, sourcePath, licVars, graphVars, stepVars>>

\* .pipe(gulp.sourcemaps.mapSources(unflattenCorePaths))
MapSources ==
    /\ pathPc = "renamed"
    /\ sourcePath' = unflattenCorePaths(PathString(pathObject))
    /\ pathPc' = "mapped"
    /\ UNCHANGED <<pathObject, origPath, licVars, graphVars, stepVars>>

CanBuild == /\ buildPc \in {"idle", "compiled", "aborted"}
            /\ runs < MaxRuns

\* buildCompiled up to the return of getChunkOptions, on node v14 or later:
\* raw is what closure-calculate-chunks printed.
BuildCompiledLive(raw) ==
    /\ CanBuild
    /\ nodeSupported
    /\ LET rawOptions == [raw EXCEPT !.js = Relativize(raw.js)]
           r == ResolveChunks(chunkState, rawOptions)
       IN /\ cacheFile' = [exists |-> TRUE, text |-> JSONStringify(rawOptions)]
          /\ cacheOrigin' = [known |-> TRUE, options |-> r.options,
                             deps |-> DepsOf(r.st)]
          /\ lastRaw' = rawOptions
          /\ chunkState' = r.st
          /\ chunkOptions' = r.options
          /\ buildPc' = IF r.options.returned THEN "resolved" ELSE "aborted"
    /\ runs' = runs + 1
    /\ UNCHANGED <<nodeSupported, licVars, pathVars, stepVars>>

\* The same on an older node, with the cache file present.
BuildCompiledCached ==
    /\ CanBuild
    /\ ~nodeSupported
    /\ cacheFile.exists
    /\ LET rawOptions == JSONParse(cacheFile.text)
           r == ResolveChunks(chunkState, rawOptions)
       IN /\ lastRaw' = rawOptions
          /\ chunkState' = r.st
          /\ chunkOptions' = r.options
          /\ buildPc' = IF r.options.returned THEN "resolved" ELSE "aborted"
    /\ runs' = runs + 1
    /\ UNCHANGED <<cacheFile, cacheOrigin, nodeSupported, licVars, pathVars, stepVars>>

\* The same with no cache file: fs.readFileSync throws.
BuildCompiledCacheMissing ==
    /\ CanBuild
    /\ ~nodeSupported
    /\ ~cacheFile.exists
    /\ lastRaw' = NoRaw
    /\ chunkOptions' = NoOptions
    /\ buildPc' = "aborted"
    /\ runs' = runs + 1
    /\ UNCHANGED <<chunkState, cacheFile, cacheOrigin, nodeSupported, licVars, pathVars,
                   stepVars>>

\* The rest of buildCompiled: the pipeline from gulp.src to gulp.dest.
Compile ==
    /\ buildPc = "resolved"
    /\ buildPc' = "compiled"
    /\ UNCHANGED <<chunkState, cacheFile, cacheOrigin, nodeSupported, runs, lastRaw,
                   chunkOptions, licVars, pathVars, stepVars>>

\* The process ends and the build is next run by a process on node.js v12
\* or earlier: the module is loaded afresh, the file system stays.  (A next
\* process on v14 or later is a fresh process as in Init: that path
\* overwrites the cache file without reading it.)
RunOnOlderNode ==
    /\ runs > 0
    /\ chunkState' = Pristine
    /\ nodeSupported' = FALSE
    /\ runs' = 0
    /\ buildPc' = "idle"
    /\ lastRaw' = NoRaw
    /\ chunkOptions' = NoOptions
    /\ UNCHANGED <<cacheFile, cacheOrigin, licVars, pathVars, stepVars>>

NextLicense == StripApacheLicense
NextPath == Rename \/ MapSources
Next == \/ \E raw \in RawOutputs : BuildCompiledLive(raw)
        \/ BuildCompiledCached
        \/ BuildCompiledCacheMissing
        \/ Compile
        \/ RunOnOlderNode

SpecLicense == InitLicense /\ [][NextLicense]_vars
SpecPath == InitPath /\ [][NextPath]_vars
Spec == Init /\ [][Next]_vars

----------------------------------------------------------------------------
(* buildCompiled followed statement by statement                            *)

\* The chain of buildCompiled, in the order of its .pipe calls.  A source
\* file passes the pipes up to compile, which takes it in; what compile
\* emits, one file per chunk, passes the pipes after it.
Pipeline == <<"gulp.src", "stripApacheLicense", "sourcemaps.init",
              "flattenCorePaths", "compile", "suffix", "unflattenCorePaths",
              "sourcemaps.write", "gulp.dest">>
CompilePos == CHOOSE i \in 1..Len(Pipeline) : Pipeline[i] = "compile"

\* The registry as an earlier buildCompiled of this process left it, having
\* run on the checked-in descriptors.
LeftByEarlierRun == ResolveChunks(Pristine, CheckedIn).st

\* buildCompiled is about to be called: in a fresh process, or in one that
\* has called it before (the cache file is then on disk).
InitBuild ==
    /\ chunkState \in {Pristine, LeftByEarlierRun}
    /\ runs = IF chunkState = Pristine THEN 0 ELSE 1
    /\ cacheFile \in {NoCache, [exists |-> TRUE, text |-> JSONStringify(CheckedIn)]}
    /\ chunkState # Pristine => cacheFile.exists
    /\ cacheOrigin = NoOrigin
    /\ nodeSupported \in BOOLEAN
    /\ buildPc = "idle"
    /\ lastRaw = NoRaw
    /\ chunkOptions = NoOptions
    /\ LicenseIdle /\ PathIdle /\ StepIdle

\* getChunkOptions up to the call of rawOptions.chunk.map, on node v14 or
\* later.
GetChunkOptionsLive(raw) ==
    /\ buildPc = "idle"
    /\ nodeSupported
    /\ LET rawOptions == [raw EXCEPT !.js = Relativize(raw.js)]
       IN /\ cacheFile' = [exists |-> TRUE, text |-> JSONStringify(rawOptions)]
          /\ lastRaw' = rawOptions
          /\ buildPc' = IF rawOptions.chunk = <<>> THEN "wrap" ELSE "map"
    /\ runs' = runs + 1
    /\ chunkByNickname' = {}
    /\ UNCHANGED <<chunkState, cacheOrigin, nodeSupported, chunkOptions, chunkList,
                   mapIndex, wrapIndex, files, outputs, licVars, pathVars>>

\* The same on an older node, with the cache file present.
GetChunkOptionsCached ==
    /\ buildPc = "idle"
    /\ ~nodeSupported
    /\ cacheFile.exists
    /\ LET rawOptions == JSONParse(cacheFile.text)
       IN /\ lastRaw' = rawOptions
          /\ buildPc' = IF rawOptions.chunk = <<>> THEN "wrap" ELSE "map"
    /\ runs' = runs + 1
    /\ chunkByNickname' = {}
    /\ UNCHANGED <<chunkState, cacheFile, cacheOrigin, nodeSupported, chunkOptions,
                   chunkList, mapIndex, wrapIndex, files, outputs, licVars, pathVars>>

\* The same with no cache file: fs.readFileSync throws.
GetChunkOptionsCacheMissing ==
    /\ buildPc = "idle"
    /\ ~nodeSupported
    /\ ~cacheFile.exists
    /\ buildPc' = "aborted"
    /\ runs' = runs + 1
    /\ UNCHANGED <<chunkState, cacheFile, cacheOrigin, nodeSupported, lastRaw,
                   chunkOptions, stepVars, licVars, pathVars>>

\* One call of the callback of rawOptions.chunk.map, on the next element.
MapCallback ==
    /\ buildPc = "map"
    /\ LET index == mapIndex + 1
           r == MapDescriptors(SubSeq(lastRaw.chunk, 1, index), index, chunkState,
                               chunkByNickname, chunkList)
       IN /\ chunkByNickname' =
                 Bind(chunkByNickname, Split(lastRaw.chunk[index], ":")[1],
                      IF index <= NumChunks THEN index ELSE 0)
          /\ chunkState' = r.st
          /\ chunkList' = r.chunkList
          /\ mapIndex' = IF r.threw THEN mapIndex ELSE index
          /\ buildPc' = IF r.threw THEN "aborted"
                        ELSE IF index = Len(lastRaw.chunk) THEN "wrap" ELSE "map"
    /\ UNCHANGED <<cacheFile, cacheOrigin, nodeSupported, runs, lastRaw, chunkOptions,
                   wrapIndex, files, outputs, licVars, pathVars>>

\* One iteration of the wrapper loop; after the last, getChunkOptions
\* builds chunkWrappers and returns.
GenerateWrapper ==
    /\ buildPc = "wrap"
    /\ LET c == wrapIndex + 1
           st2 == [chunkState EXCEPT
                       ![c].hasWrapper = TRUE,
                       ![c].wrapper = chunkWrapper(c, chunkState[c].dependencies)]
       IN IF \/ ~chunkState[c].hasDeps
             \/ \E k \in 1..Len(chunkState[c].dependencies) :
                    chunkState[c].dependencies[k] = 0
          THEN /\ buildPc' = "aborted"
               /\ UNCHANGED <<chunkState, wrapIndex, chunkOptions>>
          ELSE /\ chunkState' = st2
               /\ wrapIndex' = c
               /\ buildPc' = IF c = NumChunks THEN "resolved" ELSE "wrap"
               /\ chunkOptions' =
                      IF c = NumChunks
                      THEN [returned |-> TRUE,
                            chunk |-> chunkList,
                            js |-> lastRaw.js,
                            chunk_wrapper |->
                                [d \in 1..NumChunks |->
                                    [st2[d].wrapper EXCEPT
                                        ![1] = <<chunks[d].name, ":">> \o @]]]
                      ELSE chunkOptions
    /\ UNCHANGED <<cacheFile, cacheOrigin, nodeSupported, runs, lastRaw,
                   chunkByNickname, chunkList, mapIndex, files, outputs, licVars,
                   pathVars>>

\* gulp.src(chunkOptions.js, {base: './'}): the chain is set up, no file
\* has been read yet.
GulpSrc ==
    /\ buildPc = "resolved"
    /\ buildPc' = "pipeline"
    /\ files' = [f \in 1..Len(chunkOptions.js) |-> <<>>]
    /\ outputs' = [c \in 1..NumChunks |-> <<>>]
    /\ UNCHANGED <<chunkState, cacheFile, cacheOrigin, nodeSupported, runs, lastRaw,
                   chunkOptions, chunkByNickname, chunkList, mapIndex, wrapIndex,
                   licVars, pathVars>>

\* Source file f passes its next pipe; the files stream independently.
Pipe(f) ==
    /\ buildPc = "pipeline"
    /\ Len(files[f]) < CompilePos
    /\ files' = [files EXCEPT ![f] = Append(@, Pipeline[Len(@) + 1])]
    /\ UNCHANGED <<graphVars, chunkByNickname, chunkList, mapIndex, wrapIndex,
                   outputs, licVars, pathVars>>

\* The Closure Compiler plugin has taken in every source file and the
\* stream into it has ended: it compiles and emits one file per chunk.
CompileChunks ==
    /\ buildPc = "pipeline"
    /\ \A f \in 1..Len(files) : Len(files[f]) = CompilePos
    /\ buildPc' = "compiled"
    /\ outputs' = [c \in 1..NumChunks |-> <<Pipeline[CompilePos]>>]
    /\ UNCHANGED <<chunkState, cacheFile, cacheOrigin, nodeSupported, runs, lastRaw,
                   chunkOptions, chunkByNickname, chunkList, mapIndex, wrapIndex,
                   files, licVars, pathVars>>

\* Compiled file c passes its next pipe.
PipeOutput(c) ==
    /\ buildPc = "compiled"
    /\ CompilePos + Len(outputs[c]) <= Len(Pipeline)
    /\ outputs' = [outputs EXCEPT ![c] = Append(@, Pipeline[CompilePos + Len(@)])]
    /\ UNCHANGED <<graphVars, chunkByNickname, chunkList, mapIndex, wrapIndex,
                   files, licVars, pathVars>>

NextBuild == \/ \E raw \in RawOutputs : GetChunkOptionsLive(raw)
             \/ GetChunkOptionsCached
             \/ GetChunkOptionsCacheMissing
             \/ MapCallback
             \/ GenerateWrapper
             \/ GulpSrc
             \/ \E f \in 1..Len(files) : Pipe(f)
             \/ CompileChunks
             \/ \E c \in 1..Len(outputs) : PipeOutput(c)

SpecBuild == InitBuild /\ [][NextBuild]_vars

----------------------------------------------------------------------------
(* Properties                                                               *)

\* C1: stripApacheLicense yields a text with exactly as many lines as its
\* input, whatever the number of license blocks matched and whether or not
\* a block has the 'All rights reserved.' line.
C1_LineCountPreserved ==
    licPc = "stripped" => lineCount(fileText) = lineCount(origText)

\* C2: for every path whose first directory segment is 'core' and none of
\* whose segments contains '-slash-', flattenCorePaths followed by
\* unflattenCorePaths on the rebuilt path gives back the original path.
C2_RoundTrip ==
    (/\ pathPc = "mapped"
     /\ FirstSegment(origPath) = Core
     /\ NoTokenInSegments(origPath))
    => sourcePath = PathString(origPath)

\* C3: on every path whose first segment is not 'core' (a path that
\* flattenCorePaths does not touch) unflattenCorePaths returns the string
\* unchanged.
C3_ReverseNoOp ==
    (pathPc = "mapped" /\ FirstSegment(origPath) # Core)
    => sourcePath = PathString(origPath)

\* C4: for every path object whose first directory segment is not 'core',
\* also when 'core' is a later segment or a prefix of the first segment,
\* flattenCorePaths leaves dirname, basename and extname unchanged.
C4_ForwardNoOp ==
    (pathPc \in {"renamed", "mapped"} /\ FirstSegment(origPath) # Core)
    => /\ pathObject.dirname = origPath.dirname
       /\ pathObject.basename = origPath.basename
       /\ pathObject.extname = origPath.extname

\* A path through flattenCorePaths whose first segment is 'core2' and which
\* has 'core' as a later segment.
C4_Witness ==
    /\ pathPc = "renamed"
    /\ FirstSegment(origPath) = SegCore2
    /\ \E k \in 2..Len(Split(origPath.dirname, Sep)) :
           Split(origPath.dirname, Sep)[k] = Core

\* C5: after getChunkOptions returns, the first declared chunk has an empty
\* dependencies list and every other chunk has a non-empty one that holds
\* only chunks declared strictly earlier.
C5_OrderingInvariant ==
    chunkOptions.returned =>
        \A c \in 1..NumChunks :
            LET deps == chunkState[c].dependencies IN
            /\ chunkState[c].hasDeps
            /\ (c = 1 => deps = <<>>)
            /\ (c > 1 => deps # <<>>)
            /\ \A k \in 1..Len(deps) : deps[k] \in 1..(c - 1)

Nickname(element) == Split(element, ":")[1]
DependencyNicks(element) ==
    LET parts == Split(element, ":") IN
    IF Len(parts) >= 3 /\ parts[3] # <<>> THEN Split(parts[3], ",") ELSE <<>>
\* Descriptor i names a nickname that no descriptor up to and including i
\* carries: the nickname of a later descriptor (a forward reference) or of
\* none (an unknown nickname).
NamesUnboundNick(elements, i) ==
    \E k \in 1..Len(DependencyNicks(elements[i])) :
        \A j \in 1..i : Nickname(elements[j]) # DependencyNicks(elements[i])[k]
HasUnboundNick(elements) == \E i \in 1..Len(elements) : NamesUnboundNick(elements, i)

C7_FailsOnMismatch ==
    (runs > 0 /\ Len(lastRaw.chunk) # NumChunks) => ~chunkOptions.returned

NamespaceCreate == <<"const ", NAMESPACE_OBJECT, "={};">>
PublishHandle == <<NAMESPACE_OBJECT, ".Blockly.internal_=", NAMESPACE_OBJECT, ";">>
RetrieveHandle == <<"const ", NAMESPACE_OBJECT, "=Blockly.internal_;">>
Placeholder == <<"%output%">>

\* C8: the wrapper of the first declared chunk creates the namespace object
\* before the compiled body and publishes the handle to it after the body;
\* the wrapper of any other chunk retrieves the published handle before the
\* body and has no namespace-creation statement.
C8_WrapperRootRule ==
    \A c \in 1..NumChunks :
        chunkState[c].hasWrapper =>
            LET w == chunkState[c].wrapper IN
            IF c = 1
            THEN \E i, j, k \in 1..Len(w) :
                     /\ i < j /\ j < k
                     /\ w[i] = NamespaceCreate
                     /\ w[j] = Placeholder
                     /\ w[k] = PublishHandle
            ELSE /\ \E i, j \in 1..Len(w) :
                        i < j /\ w[i] = RetrieveHandle /\ w[j] = Placeholder
                 /\ \A i \in 1..Len(w) : w[i] # NamespaceCreate

\* getChunkOptions has returned with wrappers for the first chunk and for a
\* chunk that depends on it.
C8_Witness ==
    /\ chunkOptions.returned
    /\ chunkState[1].hasWrapper
    /\ chunkState[2].hasWrapper
    /\ chunkState[2].dependencies = <<1>>

\* C9: when the cache file was written by a live run that returned, a run
\* on an unsupported runtime that reads it returns the same chunk
\* descriptors and file list and leaves the same dependency lists.
C9_CacheEquivalence ==
    (/\ ~nodeSupported
     /\ runs > 0
     /\ cacheOrigin.known
     /\ cacheOrigin.options.returned)
    => /\ chunkOptions.returned
       /\ chunkOptions.chunk = cacheOrigin.options.chunk
       /\ chunkOptions.js = cacheOrigin.options.js
       /\ DepsOf(chunkState) = cacheOrigin.deps

\* C10: within a process, getChunkOptions on the same raw output yields the
\* same dependency lists whatever an invocation in between left on the
\* registry: for every raw output, a run from the registry before a build
\* and a run from the registry after it agree when both return.
C10_Deterministic ==
    [][runs' = runs + 1 =>
          \A raw \in RawOutputs :
              LET before == ResolveChunks(chunkState, raw)
                  after == ResolveChunks(chunkState', raw)
              IN (before.options.returned /\ after.options.returned)
                 => DepsOf(before.st) = DepsOf(after.st)]_vars

\* C11: flattenCorePaths is injective on the paths under 'core' none of
\* whose segments contains '-slash-': no other such path is renamed to the
\* dirname/basename pair this file was renamed to, be the other file nested
\* or directly in core/.
C11_Injective ==
    (/\ pathPc = "renamed"
     /\ FirstSegment(origPath) = Core
     /\ NoTokenInSegments(origPath))
    => \A other \in PathInputs :
           (/\ other # origPath
            /\ FirstSegment(other) = Core
            /\ NoTokenInSegments(other))
           => \/ flattenCorePaths(other).dirname # pathObject.dirname
              \/ flattenCorePaths(other).basename # pathObject.basename

Passed(log, pipe) == \E i \in 1..Len(log) : log[i] = pipe
Before(log, a, b) ==
    \A j \in 1..Len(log) : log[j] = b => \E i \in 1..(j - 1) : log[i] = a
InPipeline == \/ \E f \in 1..Len(files) : files[f] # <<>>
              \/ \E c \in 1..Len(outputs) : outputs[c] # <<>>

\* C12: at every point of a run of buildCompiled: a wrapper has been
\* generated only if the map over the descriptors is finished and has
\* resolved every declared chunk; a file has entered the pipeline only if
\* every wrapper has been generated and the options returned; a file has
\* been flattened only after it was license-stripped and taken in by the
\* compiler only after it was flattened; compiled files exist only once
\* every source file has been flattened; the reverse path transform has
\* been applied only to what the compiler emitted; and in a run that ended
\* in an error no file has entered the pipeline, nor has a wrapper been
\* generated when the error came from the map.
C12_StrictOrder ==
    /\ wrapIndex > 0 =>
           /\ buildPc # "map"
           /\ mapIndex = Len(lastRaw.chunk)
           /\ mapIndex >= NumChunks
    /\ InPipeline => (wrapIndex = NumChunks /\ chunkOptions.returned)
    /\ \A f \in 1..Len(files) :
           /\ Before(files[f], "stripApacheLicense", "flattenCorePaths")
           /\ Before(files[f], "flattenCorePaths", "compile")
           /\ ~Passed(files[f], "unflattenCorePaths")
    /\ (\E c \in 1..Len(outputs) : outputs[c] # <<>>) =>
           \A f \in 1..Len(files) : Passed(files[f], "flattenCorePaths")
    /\ \A c \in 1..Len(outputs) : Before(outputs[c], "compile", "unflattenCorePaths")
    /\ buildPc = "aborted" =>
           /\ ~InPipeline
           /\ mapIndex < Len(lastRaw.chunk) => wrapIndex = 0

====
